---- MODULE Spec2Model ----
(***************************************************************************)
(* Model of audlib/sig/util.py: the frequency-response routines, the noise *)
(* injection routines, the segment samplers, the quantizer and nextpow2.   *)
(*                                                                         *)
(* Every routine is a function of its arguments and of the draws it takes  *)
(* from the process-wide random source; quantize also writes to the array  *)
(* object it is handed.  A behaviour is one call: Init chooses the routine *)
(* and its arguments, the routine's action runs it and records what it     *)
(* returned (or the exception it raised), the draws it consumed and the    *)
(* contents of the caller's array afterwards.                              *)
(*                                                                         *)
(* Numbers.  Samples and coefficients are small integers.  A complex value *)
(* is <<re, im, den>> standing for (re + im*j)/den with den > 0; transform *)
(* sizes are 1, 2 and 4, whose roots of unity are 1, -j, -1, j, so that    *)
(* every transform value is exact and the exact-zero test of iirfreqz is   *)
(* decided as the floating-point code decides it.  A real quotient is      *)
(* <<num, den>>; <<0, 0>> is NaN (0/0).                                    *)
(***************************************************************************)
EXTENDS Integers, Sequences, FiniteSets

VARIABLES pc, op, args, rnd, buf, ret

vars == <<pc, op, args, rnd, buf, ret>>

(* ------------------------------ bounds -------------------------------- *)

\* longest signal, noise or coefficient vector
MaxLen == 3
\* most segments asked of a sampler
MaxNum == 2
\* the random source yields j/RandDen, j in 0..RandDen-1 (a value of [0,1))
RandDen == 4
\* largest argument of nextpow2
MaxN == 40
\* largest sample magnitude handed to quantize
MaxAmp == 3
\* most bits asked of quantize
MaxBits == 2

\* sample and coefficient values of the other routines
Vals == {-1, 0, 1}
\* transform sizes
Nffts == {1, 2, 4}

FREQZ_CEILING == 100000

(* ------------------------------ helpers ------------------------------- *)

Min(a, b) == IF a <= b THEN a ELSE b

Abs(a) == IF a < 0 THEN -a ELSE a

SeqsUpTo(S, lo, hi) == UNION {[1..n -> S] : n \in lo..hi}

RECURSIVE Pow2(_)
Pow2(e) == IF e = 0 THEN 1 ELSE 2 * Pow2(e - 1)

RECURSIVE SumSq(_)
\* v.dot(v)
SumSq(v) == IF v = <<>> THEN 0 ELSE Head(v) * Head(v) + SumSq(Tail(v))

RECURSIVE MaxAbs(_)
\* np.max(np.abs(v)) of a non-empty v
MaxAbs(v) ==
    IF Len(v) = 1 THEN Abs(v[1])
    ELSE LET m == MaxAbs(Tail(v)) IN IF Abs(Head(v)) >= m THEN Abs(Head(v)) ELSE m

\* Python's v[a:b] for 0 <= a: both ends are clipped to the sequence
Slice(v, a, b) == SubSeq(v, a + 1, Min(b, Len(v)))

\* ceil(a/b) for a >= 0, b > 0
CeilDiv(a, b) == (a + b - 1) \div b

(* ------------------------- complex arithmetic ------------------------- *)

COne == <<1, 0, 1>>

CReal(c) == <<c, 0, 1>>

CIsZero(z) == z[1] = 0 /\ z[2] = 0

CEq(u, v) == u[1] * v[3] = v[1] * u[3] /\ u[2] * v[3] = v[2] * u[3]

CMul(u, v) == <<u[1] * v[1] - u[2] * v[2], u[1] * v[2] + u[2] * v[1], u[3] * v[3]>>

\* 1/z for z # 0: conj(z)/|z|^2
CInv(z) ==
    LET a == z[1]
        b == z[2]
        d == z[3]
    IN <<a * d, -(b * d), a * a + b * b>>

\* exp(-2*pi*j*m/n) for n in {1, 2, 4}: a power of -j
Root(n, m) ==
    LET q == (m * (4 \div n)) % 4
    IN CASE q = 0 -> <<1, 0>>
         [] q = 1 -> <<0, -1>>
         [] q = 2 -> <<-1, 0>>
         [] q = 3 -> <<0, 1>>

RECURSIVE DftSum(_, _, _, _)
\* sum over j < m of h[j] * exp(-2*pi*j*(j*k)/n), as <<re, im>>
DftSum(h, n, k, m) ==
    IF m = 0 THEN <<0, 0>>
    ELSE LET s == DftSum(h, n, k, m - 1)
             w == Root(n, (m - 1) * k)
         IN <<s[1] + h[m] * w[1], s[2] + h[m] * w[2]>>

\* numpy.fft.fft(h, n=nfft): h is cut to nfft entries or padded with zeros
fft(h, nfft) ==
    [k \in 1..nfft |->
        LET s == DftSum(h, nfft, k - 1, Min(Len(h), nfft)) IN <<s[1], s[2], 1>>]

\* np.linspace(0, 2, num=nfft, endpoint=False): the k-th point is 2k/nfft
linspace02(nfft) == [k \in 1..nfft |-> <<2 * (k - 1), nfft>>]

Ok(v) == [err |-> "none", val |-> v]

Raise(e) == [err |-> e, val |-> <<>>]

firfreqz(h, nfft) == Ok([ww |-> linspace02(nfft), hh |-> fft(h, nfft)])

\* hh[~zeros] = 1 / hh_inv: the right side has nfft entries, the mask selects
\* the non-zero bins.  numpy broadcasts a right side of one entry and
\* otherwise raises ValueError unless the two counts agree.
MaskedAssignFits(nrhs, nselected) == nrhs = 1 \/ nrhs = nselected

\* iirfreqz with the mask the wrong way round: the non-zero bins are taken
\* for the zero ones
iirfreqz_swapped(h, nfft, ceiling) ==
    LET hh_inv == fft(h, nfft)
        zeros == {k \in 1..nfft : ~CIsZero(hh_inv[k])}
    IN IF ~MaskedAssignFits(nfft, nfft - Cardinality(zeros))
       THEN Raise("ValueError")
       ELSE Ok([ww |-> linspace02(nfft),
                hh |-> [k \in 1..nfft |->
                          IF k \in zeros THEN CReal(ceiling) ELSE CInv(hh_inv[k])]])

iirfreqz(h, nfft, ceiling) ==
    LET hh_inv == fft(h, nfft)
        zeros == {k \in 1..nfft : CIsZero(hh_inv[k])}
    IN IF ~MaskedAssignFits(nfft, nfft - Cardinality(zeros))
       THEN Raise("ValueError")
       ELSE Ok([ww |-> linspace02(nfft),
                hh |-> [k \in 1..nfft |->
                          IF k \in zeros THEN CReal(ceiling) ELSE CInv(hh_inv[k])]])

freqz(numerator, demonimator, nfft, ceiling) ==
    LET fir == firfreqz(numerator, nfft)
        iir == iirfreqz(demonimator, nfft, ceiling)
    IN IF iir.err # "none" THEN iir
       ELSE Ok([ww |-> fir.val.ww,
                hh |-> [k \in 1..nfft |-> CMul(fir.val.hh[k], iir.val.hh[k])]])

RECURSIVE bit_length(_)
\* int.bit_length of m >= 0
bit_length(m) == IF m = 0 THEN 0 ELSE 1 + bit_length(m \div 2)

\* nextpow2 from the bit length of n itself: the power of two above n
nextpow2_strict(n) == Pow2(bit_length(n))

nextpow2(n) == Pow2(bit_length(n - 1))

(* ----------------------------- sampling ------------------------------- *)

\* np.around(num/den) for num >= 0, den > 0: to nearest, ties to even
around(num, den) ==
    LET q == num \div den
        r == num % den
    IN IF 2 * r < den THEN q
       ELSE IF 2 * r > den THEN q + 1
       ELSE IF q % 2 = 0 THEN q ELSE q + 1

\* the largest start taken to be the signal's length
start_idx_max_whole(xlen, length) == xlen

\* len(x) - length
start_idx_max(xlen, length) == xlen - length

\* the longer of the two signals taken for the shorter
maxlength_longer(xlen, ylen) == IF xlen >= ylen THEN xlen ELSE ylen

\* min(len(x), len(y))
maxlength(xlen, ylen) == Min(xlen, ylen)

\* np.around(rand.rand(num) * limit), the draws being draws[i]/RandDen
start_idx(draws, limit) == [i \in 1..Len(draws) |-> around(draws[i] * limit, RandDen)]

sample(x, length, num, draws) ==
    IF ~(Len(x) >= length) THEN Raise("AssertionError")
    ELSE LET idx == start_idx(draws, start_idx_max(Len(x), length))
         IN Ok([i \in 1..num |-> Slice(x, idx[i], idx[i] + length)])

sample_pair(x, y, length, num, draws) ==
    LET ml == maxlength(Len(x), Len(y))
    IN IF ~(ml >= length) THEN Raise("AssertionError")
       ELSE LET idx == start_idx(draws, ml - length)
            IN Ok([xsegs |-> [i \in 1..num |-> Slice(x, idx[i], idx[i] + length)],
                   ysegs |-> [i \in 1..num |-> Slice(y, idx[i], idx[i] + length)]])

(* ------------------------------- noise -------------------------------- *)

\* An SNR argument: +inf, -inf, None, or a number of decibels <<num, den>>.
PosInf == [kind |-> "inf", db |-> <<0, 1>>]
NegInf == [kind |-> "-inf", db |-> <<0, 1>>]
None == [kind |-> "None", db |-> <<0, 1>>]
Db(d) == [kind |-> "dB", db |-> <<d, 1>>]

\* The gain sqrt(xe / 10**(snr/10) / ne), kept as the three numbers it is
\* computed from; ne = 0 makes it inf or NaN, which numpy returns with a
\* warning and no exception.
Gain(xe, ne, db) == [xe |-> xe, ne |-> ne, db |-> db]

Unit == Gain(1, 1, <<0, 1>>)

\* A sample a + g*b of a returned signal; an exact value c is c + 1*0.
Num(c) == [a |-> c, g |-> Unit, b |-> 0]

Exact(v) == [i \in 1..Len(v) |-> Num(v[i])]

\* np.tile(n, reps)
RECURSIVE tile(_, _)
tile(n, reps) == IF reps = 0 THEN <<>> ELSE n \o tile(n, reps - 1)

\* the noise tiled to cover the signal and not cut back to its length
same_length_untruncated(xlen, n) ==
    IF xlen > Len(n)
    THEN IF Len(n) = 0 THEN Raise("ZeroDivisionError")
         ELSE Ok(tile(n, CeilDiv(xlen, Len(n))))
    ELSE Ok(Slice(n, 0, xlen))

\* the noise cut to the signal's length and never tiled
same_length_untiled(xlen, n) == Ok(Slice(n, 0, xlen))

\* the noise made as long as the signal (lines 110-114); xlen/nlen raises
\* ZeroDivisionError when the noise is empty and the signal is not
same_length(xlen, n) ==
    IF xlen > Len(n)
    THEN IF Len(n) = 0 THEN Raise("ZeroDivisionError")
         ELSE Ok(Slice(tile(n, CeilDiv(xlen, Len(n))), 0, xlen))
    ELSE Ok(Slice(n, 0, xlen))

\* (rand.random() - 0.25) * 20 for the draw u/RandDen, in decibels
random_snr(u) == <<(4 * u - RandDen) * 5, RandDen>>

\* additive_noise with the +inf case tested after the noise was fitted
additive_noise_inf_last(x, n, snr, u) ==
    LET nn == same_length(Len(x), n)
    IN IF nn.err # "none" THEN nn
       ELSE IF snr.kind = "inf" THEN Ok(Exact([i \in 1..Len(x) |-> 0]))
       ELSE IF snr.kind = "-inf" THEN Ok(Exact(nn.val))
       ELSE LET db == IF snr.kind = "None" THEN random_snr(u) ELSE snr.db
                nscale == Gain(SumSq(x), SumSq(nn.val), db)
            IN Ok([i \in 1..Len(nn.val) |-> [a |-> 0, g |-> nscale, b |-> nn.val[i]]])

additive_noise(x, n, snr, u) ==
    IF snr.kind = "inf" THEN Ok(Exact([i \in 1..Len(x) |-> 0]))
    ELSE LET nn == same_length(Len(x), n)
         IN IF nn.err # "none" THEN nn
            ELSE IF snr.kind = "-inf" THEN Ok(Exact(nn.val))
            ELSE LET db == IF snr.kind = "None" THEN random_snr(u) ELSE snr.db
                     nscale == Gain(SumSq(x), SumSq(nn.val), db)
                 IN Ok([i \in 1..Len(nn.val) |-> [a |-> 0, g |-> nscale, b |-> nn.val[i]]])

\* x + noise, x exact; the two have the same length
plus(x, noise) == [i \in 1..Len(x) |-> [noise[i] EXCEPT !.a = x[i] + @]]

add_noise(x, n, snr, u) ==
    LET noise == additive_noise(x, n, snr, u)
    IN IF noise.err # "none" THEN noise
       ELSE IF snr.kind = "-inf" THEN noise
       ELSE Ok(plus(x, noise.val))

(* ------------------------------ quantize ------------------------------ *)

RECURSIVE Gcd(_, _)
Gcd(a, b) == IF b = 0 THEN a ELSE Gcd(b, a % b)

NaN == <<0, 0>>

\* a/b in lowest terms, b >= 0; 0/0 is NaN
Quot(a, b) ==
    IF b = 0 THEN NaN
    ELSE LET g == Gcd(Abs(a), b) IN <<a \div g, b \div g>>

\* the caller's array of samples, each held as a quotient
AsArray(x) == [i \in 1..Len(x) |-> Quot(x[i], 1)]

\* x /= np.ma.max(np.abs(x)): the array after the in-place division
normalized(x) == [i \in 1..Len(x) |-> Quot(x[i], MaxAbs(x))]

\* np.linspace(-1, 1, 2**n+1) with the last edge then set to 1.01;
\* edge j (from 0) of the first 2**n is -1 + 2j/2**n
bins(n) ==
    LET N == Pow2(n)
    IN [j \in 1..(N + 1) |-> IF j = N + 1 THEN <<101, 100>> ELSE <<2 * (j - 1) - N, N>>]

\* (bins[:-1] + bins[1:]) / 2, taken before the last edge is moved
qvals(n) == LET N == Pow2(n) IN [k \in 1..N |-> Quot(2 * (k - 1) + 1 - N, N)]

\* np.digitize(v, edges): the number of edges <= v; NaN sorts after every edge
digitize(v, edges) ==
    IF v = NaN THEN Len(edges)
    ELSE Cardinality({j \in 1..Len(edges) : edges[j][1] * v[2] <= v[1] * edges[j][2]})

\* the indices np.digitize(x, bins) - 1 (from 0) into qvals
levels(x, n) == [i \in 1..Len(x) |-> digitize(normalized(x)[i], bins(n)) - 1]

\* qvals[levels]: an index past the last level raises IndexError
quantize(x, n) ==
    LET N == Pow2(n)
        lv == levels(x, n)
    IN IF \E i \in 1..Len(x) : lv[i] >= N \/ lv[i] < -N THEN Raise("IndexError")
       ELSE Ok([i \in 1..Len(x) |-> qvals(n)[IF lv[i] >= 0 THEN lv[i] + 1 ELSE N + lv[i] + 1]])

(* ------------------------------ the calls ----------------------------- *)

Signals == SeqsUpTo(Vals, 0, MaxLen)

Coefficients == SeqsUpTo(Vals, 1, MaxLen)

Ceilings == {FREQZ_CEILING, 2}

Snrs == {PosInf, NegInf, None, Db(-10), Db(0), Db(10)}

\* a signal whose samples tell their positions: base+1, ..., base+len
Ramp(len, base) == [i \in 1..len |-> base + i]

Pending == [err |-> "pending", val |-> <<>>]

Init ==
    /\ pc = "call"
    /\ rnd = <<>>
    /\ ret = Pending
    /\ \/ op = "nextpow2" /\ args \in [n : 1..MaxN] /\ buf = <<>>
       \/ op = "firfreqz" /\ args \in [h : Coefficients, nfft : Nffts] /\ buf = <<>>
       \/ op = "iirfreqz" /\ buf = <<>>
          /\ args \in [h : Coefficients, nfft : Nffts, ceiling : Ceilings]
       \/ op = "freqz" /\ buf = <<>>
          /\ args \in [numerator : Coefficients, demonimator : Coefficients,
                       nfft : Nffts, ceiling : Ceilings]
       \/ op = "sample" /\ buf = <<>>
          /\ args \in [x : Signals, length : 0..(MaxLen + 1), num : 0..MaxNum]
       \/ op = "sample_pair" /\ buf = <<>>
          /\ args \in [x : {Ramp(l, 0) : l \in 0..MaxLen},
                       y : {Ramp(l, 10) : l \in 0..MaxLen},
                       length : 0..(MaxLen + 1), num : 0..MaxNum]
       \/ op \in {"add_noise", "additive_noise"} /\ buf = <<>>
          /\ args \in [x : Signals, n : Signals, snr : Snrs]
       \/ op = "quantize"
          /\ args \in [x : SeqsUpTo((-MaxAmp)..MaxAmp, 1, MaxLen), n : 1..MaxBits]
          /\ buf = AsArray(args.x)

Return(r, draws) ==
    /\ pc' = "done"
    /\ ret' = r
    /\ rnd' = draws
    /\ UNCHANGED <<op, args>>

Draws(num) == [1..num -> 0..(RandDen - 1)]

Nextpow2 ==
    /\ pc = "call" /\ op = "nextpow2"
    /\ Return(Ok(nextpow2(args.n)), <<>>)
    /\ UNCHANGED buf

Firfreqz ==
    /\ pc = "call" /\ op = "firfreqz"
    /\ Return(firfreqz(args.h, args.nfft), <<>>)
    /\ UNCHANGED buf

Iirfreqz ==
    /\ pc = "call" /\ op = "iirfreqz"
    /\ Return(iirfreqz(args.h, args.nfft, args.ceiling), <<>>)
    /\ UNCHANGED buf

Freqz ==
    /\ pc = "call" /\ op = "freqz"
    /\ Return(freqz(args.numerator, args.demonimator, args.nfft, args.ceiling), <<>>)
    /\ UNCHANGED buf

\* the draws are taken only once the assertion has passed
Sample ==
    /\ pc = "call" /\ op = "sample"
    /\ \E draws \in Draws(IF Len(args.x) >= args.length THEN args.num ELSE 0) :
          Return(sample(args.x, args.length, args.num, draws), draws)
    /\ UNCHANGED buf

SamplePair ==
    /\ pc = "call" /\ op = "sample_pair"
    /\ \E draws \in Draws(IF maxlength(Len(args.x), Len(args.y)) >= args.length
                          THEN args.num ELSE 0) :
          Return(sample_pair(args.x, args.y, args.length, args.num, draws), draws)
    /\ UNCHANGED buf

\* rand.random() is reached only for snr=None, after the noise was fitted
DrawsSnr(x, n, snr) ==
    Draws(IF snr.kind = "None" /\ same_length(Len(x), n).err = "none" THEN 1 ELSE 0)

AddNoise ==
    /\ pc = "call" /\ op = "add_noise"
    /\ \E draws \in DrawsSnr(args.x, args.n, args.snr) :
          Return(add_noise(args.x, args.n, args.snr,
                           IF draws = <<>> THEN 0 ELSE draws[1]), draws)
    /\ UNCHANGED buf

AdditiveNoise ==
    /\ pc = "call" /\ op = "additive_noise"
    /\ \E draws \in DrawsSnr(args.x, args.n, args.snr) :
          Return(additive_noise(args.x, args.n, args.snr,
                                IF draws = <<>> THEN 0 ELSE draws[1]), draws)
    /\ UNCHANGED buf

\* the division is done in the caller's array before anything can raise
Quantize ==
    /\ pc = "call" /\ op = "quantize"
    /\ buf' = normalized(args.x)
    /\ Return(quantize(args.x, args.n), <<>>)

Next ==
    \/ Nextpow2
    \/ Firfreqz
    \/ Iirfreqz
    \/ Freqz
    \/ Sample
    \/ SamplePair
    \/ AddNoise
    \/ AdditiveNoise
    \/ Quantize

Spec == Init /\ [][Next]_vars

(* ------------------------------ properties ---------------------------- *)

Done(o) == pc = "done" /\ op = o

\* C1: iirfreqz returns, for every h, nfft and ceiling, nfft bins; a bin whose
\* transform value is exactly zero holds the ceiling and every other bin
\* holds the inverse of its transform value; no error is raised when some
\* or all bins are zero.
C1_IirCeilingPolicy ==
    Done("iirfreqz") =>
        LET hh_inv == fft(args.h, args.nfft)
        IN /\ ret.err = "none"
           /\ Len(ret.val.hh) = args.nfft
           /\ \A k \in 1..args.nfft :
                 IF CIsZero(hh_inv[k])
                 THEN ret.val.hh[k] = CReal(args.ceiling)
                 ELSE CEq(CMul(ret.val.hh[k], hh_inv[k]), COne)

\* C2: quantize leaves the caller's array as it was before the call.
C2_QuantizeKeepsInput == Done("quantize") => buf = AsArray(args.x)

\* the k-th (from 0) of the N equal bins of [-1, 1] holds s/peak; the top
\* bin also holds the peak itself
InBin(s, peak, k, N) ==
    /\ (2 * k - N) * peak <= s * N
    /\ \/ s * N < (2 * (k + 1) - N) * peak
       \/ k = N - 1 /\ s = peak

\* C7: quantize returns, for any signal and bits >= 1, as many values as the
\* signal has samples, at most 2^bits distinct ones, each within [-1, 1] and
\* the midpoint of the bin its peak-normalized sample falls into; no sample
\* indexes outside the 2^bits levels.
C7_QuantizeLevels ==
    Done("quantize") =>
        LET N == Pow2(args.n)
            peak == MaxAbs(args.x)
        IN /\ ret.err = "none"
           /\ Len(ret.val) = Len(args.x)
           /\ Cardinality({ret.val[i] : i \in 1..Len(ret.val)}) <= N
           /\ \A i \in 1..Len(ret.val) :
                 /\ -ret.val[i][2] <= ret.val[i][1] /\ ret.val[i][1] <= ret.val[i][2]
                 /\ \E k \in 0..(N - 1) :
                       /\ ret.val[i] = Quot(2 * k + 1 - N, N)
                       /\ InBin(args.x[i], peak, k, N)

\* the noise n repeated to cover xlen samples: sample i (from 0) is
\* n[i mod len(n)], whatever the signal holds
IsFittedNoise(r, xlen, n) ==
    /\ r.err = "none"
    /\ Len(r.val) = xlen
    /\ \A i \in 1..xlen : r.val[i] = Num(n[((i - 1) % Len(n)) + 1])

\* C3, as claimed: for any signal and any noise of any length,
\* add_noise(s, n, -inf) returns the noise tiled and cut to len(s),
\* unscaled and not summed with s.
C3_NoiseOnlyAnyNoise ==
    (Done("add_noise") /\ args.snr = NegInf) => IsFittedNoise(ret, Len(args.x), args.n)

\* C3, amended: the same for any non-empty noise.
C3_NoiseOnly ==
    (Done("add_noise") /\ args.snr = NegInf /\ Len(args.n) > 0) =>
        IsFittedNoise(ret, Len(args.x), args.n)

\* a noise-only call whose noise had to be tiled and then cut
C3_Witness ==
    /\ Done("add_noise") /\ args.snr = NegInf
    /\ Len(args.n) = 2 /\ Len(args.x) = 3
    /\ args.n[1] # args.n[2]
    /\ ret.err = "none"

\* C4: add_noise(s, n, +inf) is s itself, for any noise of any length: the
\* added term is all zero and the noise is neither tiled nor cut nor scaled.
C4_Noiseless ==
    (Done("add_noise") /\ args.snr = PosInf) => ret = Ok(Exact(args.x))

\* a noiseless call with an empty noise, which cannot be tiled
C4_Witness ==
    /\ Done("add_noise") /\ args.snr = PosInf
    /\ Len(args.x) > 0 /\ Len(args.n) = 0
    /\ \E i \in 1..Len(args.x) : args.x[i] # 0
    /\ ret.err = "none"

\* o is the start the i-th draw rounds to: within half a sample of
\* draw * limit and within 0..limit
IsStart(o, draw, limit) ==
    /\ 0 <= o /\ o <= limit
    /\ 2 * Abs(o * RandDen - draw * limit) <= RandDen

\* C5: sample fails its assertion when length > len(s); otherwise every
\* outcome of the draws gives num slices s[o:o+length] of exactly length
\* samples, o being the draw rounded to nearest, 0 <= o <= len(s) - length.
C5_SampleSegments ==
    Done("sample") =>
        IF args.length > Len(args.x) THEN ret.err = "AssertionError"
        ELSE /\ ret.err = "none"
             /\ Len(ret.val) = args.num
             /\ \A i \in 1..args.num :
                   /\ Len(ret.val[i]) = args.length
                   /\ \E o \in 0..(Len(args.x) - args.length) :
                         /\ IsStart(o, rnd[i], Len(args.x) - args.length)
                         /\ ret.val[i] = SubSeq(args.x, o + 1, o + args.length)

\* two segments drawn at different places, one of them at the last start
C5_Witness ==
    /\ Done("sample") /\ ret.err = "none"
    /\ args.num = 2 /\ args.length = 1 /\ Len(args.x) = 3
    /\ ret.val[1] = <<args.x[3]>> /\ ret.val[2] = <<args.x[1]>>
    /\ args.x[1] # args.x[3]

\* the whole signal asked for: every slice is the signal
C5_WitnessWhole ==
    /\ Done("sample") /\ ret.err = "none"
    /\ args.num = 2 /\ args.length = Len(args.x) /\ Len(args.x) = 3
    /\ ret.val[1] = args.x

\* C6: sample_pair fails its assertion when length > min(len(x), len(y));
\* otherwise both lists hold num slices of exactly length samples, the
\* i-th of x and the i-th of y cut at one common start o,
\* 0 <= o <= min(len(x), len(y)) - length.
C6_SamplePaired ==
    Done("sample_pair") =>
        LET limit == Min(Len(args.x), Len(args.y)) - args.length
        IN IF limit < 0 THEN ret.err = "AssertionError"
           ELSE /\ ret.err = "none"
                /\ Len(ret.val.xsegs) = args.num
                /\ Len(ret.val.ysegs) = args.num
                /\ \A i \in 1..args.num :
                      /\ Len(ret.val.xsegs[i]) = args.length
                      /\ Len(ret.val.ysegs[i]) = args.length
                      /\ \E o \in 0..limit :
                            /\ IsStart(o, rnd[i], limit)
                            /\ ret.val.xsegs[i] = SubSeq(args.x, o + 1, o + args.length)
                            /\ ret.val.ysegs[i] = SubSeq(args.y, o + 1, o + args.length)

\* signals of different lengths, a pair cut at the last common start
C6_Witness ==
    /\ Done("sample_pair") /\ ret.err = "none"
    /\ Len(args.x) = 3 /\ Len(args.y) = 2 /\ args.length = 1 /\ args.num = 2
    /\ ret.val.xsegs[1] = <<args.x[2]>> /\ ret.val.ysegs[1] = <<args.y[2]>>
    /\ ret.val.xsegs[2] = <<args.x[1]>>

RECURSIVE IsPow2(_)
IsPow2(p) == p = 1 \/ (p > 1 /\ p % 2 = 0 /\ IsPow2(p \div 2))

\* C8: for every n >= 1, nextpow2(n) is the smallest power of two >= n,
\* hence n itself when n is a power of two.
C8_NextPow2 ==
    Done("nextpow2") =>
        /\ ret.err = "none"
        /\ IsPow2(ret.val)
        /\ ret.val >= args.n
        /\ \A q \in args.n..(ret.val - 1) : ~IsPow2(q)
        /\ (IsPow2(args.n) => ret.val = args.n)

\* nextpow2(5) = 8
C8_Witness == Done("nextpow2") /\ args.n = 5 /\ ret.val = 8

\* nextpow2(8) = 8
C8_WitnessPower == Done("nextpow2") /\ args.n = 8 /\ ret.val = 8

\* C9: freqz([1], [1], nfft) returns a grid of nfft points and a response of
\* nfft bins, each exactly one.
C9_UnitResponse ==
    (Done("freqz") /\ args.numerator = <<1>> /\ args.demonimator = <<1>>) =>
        /\ ret.err = "none"
        /\ Len(ret.val.ww) = args.nfft
        /\ \A k \in 1..args.nfft : ret.val.ww[k][1] * args.nfft = 2 * (k - 1) * ret.val.ww[k][2]
        /\ Len(ret.val.hh) = args.nfft
        /\ \A k \in 1..args.nfft : CEq(ret.val.hh[k], COne)

\* the unit filter over four bins
C9_Witness ==
    /\ Done("freqz") /\ args.numerator = <<1>> /\ args.demonimator = <<1>>
    /\ args.nfft = 4 /\ ret.err = "none"

\* the call returned a sequence as long as the signal
FitsSignal == ret.err = "none" /\ Len(ret.val) = Len(args.x)

NoiseCall == Done("add_noise") \/ Done("additive_noise")

\* C10, as claimed: whatever the two lengths and the SNR, additive_noise and
\* add_noise raise nothing and return len(signal) samples.
C10_AnyLengthsAnyNoise == NoiseCall => FitsSignal

\* C10, amended: the same for any non-empty noise.
C10_AnyLengths == (NoiseCall /\ Len(args.n) > 0) => FitsSignal

\* a finite SNR with a noise shorter than the signal
C10_Witness ==
    /\ Done("additive_noise") /\ args.snr = Db(10)
    /\ Len(args.n) = 2 /\ Len(args.x) = 3
    /\ ret.err = "none" /\ ret.val[3].b = args.n[1] /\ args.n[1] # 0

\* a drawn SNR with a noise longer than the signal
C10_WitnessLonger ==
    /\ Done("add_noise") /\ args.snr = None /\ rnd # <<>>
    /\ Len(args.n) = 3 /\ Len(args.x) = 1
    /\ ret.err = "none"

====
